---- MODULE Spec2Model ----
(***************************************************************************)
(* Expression-tree core of PyBaMM (pybamm/expression_tree/symbol.py) and   *)
(* the input validation of ScikitChebyshev2DSubMesh.                       *)
(*                                                                         *)
(* Symbol derives from anytree.NodeMixin.  A node object keeps, in its     *)
(* instance dictionary, _name, the parent back-reference and a reference   *)
(* to the list object holding its children.  Both anytree attributes are   *)
(* created lazily: the list when children are first asked for, the         *)
(* back-reference on the first attach.  copy.copy() builds a new object    *)
(* whose dictionary holds the SAME values, so a copy refers to the same    *)
(* parent and to the same list object as the original.                     *)
(*                                                                         *)
(* The heap records a list object from the moment a child is appended to   *)
(* it.  The empty list a mere read of .children creates on a childless     *)
(* node is not recorded: nothing is ever appended to it, because children  *)
(* are attached only to the node under construction, whose list is new.    *)
(***************************************************************************)
EXTENDS Integers, Sequences, FiniteSets, TLC

\* ------------------------------------------------------------------ bounds
MaxNodes == 7
MaxOrderNodes == 8
MaxLeaves == 2
MaxSeed == 1
HashBits == 4
MaxCursors == 2
MaxLims == 3

\* --------------------------------------------------------------- constants
Names == {"a", "b"}
OperatorClasses == {"Addition", "Subtraction", "Multiplication", "Division"}
Classes == {"Symbol"} \cup OperatorClasses
NonSymbols == {-5}
TimeArgs == {-1, 0}
StateArgs == {-1, 1}
Seeds == 0 .. MaxSeed
NoParent == 0
NoList == 0

VARIABLES heap, last, hashSeed, cursors, mesh

vars == <<heap, last, hashSeed, cursors, mesh>>

\* ------------------------------------------------------------ object heap
\* heap[n] is the object with identity n:
\*   cls, name   type(self) and self._name
\*   parent      the NodeMixin back-reference (NoParent: None or never set)
\*   kids        identity of the list object the node's children attribute
\*               refers to (NoList: attribute not created yet); a list
\*               object carries the identity of the node that created it
\*   list        contents of the list object created by this node
NodeIds == 1 .. Len(heap)

NewObject(cls, name) ==
    [cls |-> cls, name |-> name, parent |-> NoParent, kids |-> NoList, list |-> <<>>]

isinstance(other) == other \in NodeIds

name(h, n) == h[n].name

parent(h, n) == h[n].parent

\* NodeMixin.children: tuple(self.__children), an empty tuple when the list
\* has not been created yet
children(h, n) == IF h[n].kids = NoList THEN <<>> ELSE h[h[n].kids].list

\* --------------------------------------------------------- hash primitives
\* hash() of the interpreter, at a reduced word width.  Hash values are
\* HashBits wide.  An int hashes to its residue modulo a Mersenne number one
\* bit narrower than the word (2^61 - 1 for a 64 bit word), a str to a value
\* keyed by the per-process hash seed, a class to a value derived from the
\* address of the class object, and a tuple to an order-sensitive
\* multiply-and-add combination of the hashes of its items.
StrCode(s) ==
    CASE s = "a" -> 1 [] s = "b" -> 2 [] s = "c" -> 3
      [] s = "+" -> 4 [] s = "-" -> 5 [] s = "*" -> 6 [] s = "/" -> 7

ClassCode(c) ==
    CASE c = "Symbol" -> 0 [] c = "Addition" -> 1 [] c = "Subtraction" -> 2
      [] c = "Multiplication" -> 3 [] c = "Division" -> 4

HashInt(x) == x % (2 ^ (HashBits - 1) - 1)

HashStr(seed, s) == (StrCode(s) * (2 * seed + 5) + seed) % (2 ^ HashBits)

HashType(seed, c) == (ClassCode(c) + seed) % (2 ^ HashBits)

RECURSIVE HashLanes(_, _)
HashLanes(acc, lanes) ==
    IF lanes = <<>> THEN acc
    ELSE HashLanes((acc * 3 + Head(lanes)) % (2 ^ HashBits), Tail(lanes))

HashTuple(lanes) == (HashLanes(1, lanes) + Len(lanes)) % (2 ^ HashBits)

\* (mutant) an id that also hashes which object the node is, as the default
\* object hash does
RECURSIVE idOfInstance(_, _, _)
idOfInstance(h, seed, n) ==
    HashTuple(<<HashType(seed, h[n].cls), HashStr(seed, h[n].name), n % (2 ^ HashBits)>>
              \o [i \in 1 .. Len(children(h, n)) |->
                    HashInt(idOfInstance(h, seed, children(h, n)[i]))])

\* Symbol.id: hash((self.__class__, self.name) + tuple(child.id ...))
RECURSIVE id(_, _, _)
id(h, seed, n) ==
    HashTuple(<<HashType(seed, h[n].cls), HashStr(seed, h[n].name)>>
              \o [i \in 1 .. Len(children(h, n)) |->
                    HashInt(id(h, seed, children(h, n)[i]))])

\* ------------------------------------------------- anytree.NodeMixin parts
\* parent.__children_: the parent's list, created when missing
Touch(h, n) == IF h[n].kids = NoList THEN [h EXCEPT ![n].kids = n] ELSE h

\* node.path: the node and its ancestors along the parent back-references
RECURSIVE path(_, _)
path(h, n) == IF n = NoParent THEN {} ELSE {n} \cup path(h, h[n].parent)

Range(s) == {s[i] : i \in 1 .. Len(s)}

Remove(s, x) == SelectSeq(s, LAMBDA e : e # x)

Raised(e, h) == [exc |-> e, heap |-> h]

\* NodeMixin.parent setter: c.parent = value, value a node.
\* __check_loop, then __detach from the old parent, then __attach.
\* __detach requires c to be an element of the old parent's list
\* (assert any(child is self ...), then list.remove).
set_parent(h, c, value) ==
    IF h[c].parent = value THEN Raised("none", h)
    ELSE IF value = c \/ c \in path(h, value) THEN Raised("LoopError", h)
    ELSE IF h[c].parent # NoParent
            /\ c \notin Range(children(h, h[c].parent))
         THEN Raised("corrupt", Touch(h, h[c].parent))
    ELSE LET old == h[c].parent
             h1 == IF old = NoParent THEN h
                   ELSE LET t == Touch(h, old)
                        IN [t EXCEPT ![t[old].kids].list = Remove(@, c),
                                     ![c].parent = NoParent]
             h2 == Touch(h1, value)
         IN Raised("none",
                   [h2 EXCEPT ![h2[value].kids].list = Append(@, c),
                              ![c].parent = value])

\* copy.copy(child): a new object with the same class and the same
\* dictionary values (name, parent reference, list reference)
copy_copy(h, child) == [h[child] EXCEPT !.list = <<>>]

\* (mutant) child.parent = self, without the copy
AttachChildInPlace(h, self, child) == set_parent(h, child, self)

\* copy.copy(child).parent = self
AttachChild(h, self, child) ==
    LET h1 == Append(h, copy_copy(h, child))
    IN set_parent(h1, Len(h1), self)

RECURSIVE AttachAll(_, _, _)
AttachAll(h, self, kids) ==
    IF kids = <<>> THEN Raised("none", h)
    ELSE LET r == AttachChild(h, self, Head(kids))
         IN IF r.exc # "none" THEN r ELSE AttachAll(r.heap, self, Tail(kids))

\* Symbol.__init__(self, name, children)
Symbol_init(h, cls, nm, kids) ==
    LET h1 == Append(h, NewObject(cls, nm))
    IN AttachAll(h1, Len(h1), kids)

OperatorName(cls) ==
    CASE cls = "Addition" -> "+" [] cls = "Subtraction" -> "-"
      [] cls = "Multiplication" -> "*" [] cls = "Division" -> "/"

\* pybamm.Addition(left, right) and its three siblings
BinaryOperator(h, cls, left, right) ==
    Symbol_init(h, cls, OperatorName(cls), <<left, right>>)

\* ------------------------------------------------------------- operations
Result(op, outcome, msg, value) ==
    [op |-> op, outcome |-> outcome, msg |-> msg, value |-> value]

\* what escapes when __detach meets a parent whose list lacks the node:
\* the assertion, or list.remove's ValueError when assertions are stripped
CorruptErrors == {"AssertionError", "ValueError"}

\* the symbols built by Symbol(name): base kind and never attached
Leaves(h) == {n \in 1 .. Len(h) : h[n].cls = "Symbol" /\ h[n].parent = NoParent}

\* pybamm.Symbol(name)
\* (cap bounds the number of objects the model lets the heap hold)
NewLeafWithin(cap, nm) ==
    /\ Len(heap) + 1 <= cap
    /\ Cardinality(Leaves(heap)) < MaxLeaves
    /\ LET r == Symbol_init(heap, "Symbol", nm, <<>>)
       IN /\ heap' = r.heap
          /\ last' = Result("Symbol", "ok", <<>>, Len(r.heap))
    /\ UNCHANGED <<hashSeed, cursors, mesh>>

NewLeaf(nm) == NewLeafWithin(MaxNodes, nm)

\* return pybamm.Addition(self, other), or what its constructor raises;
\* the objects of a construction that raised are unreachable and dropped
Compose(cap, cls, left, right) ==
    LET r == BinaryOperator(heap, cls, left, right)
    IN IF r.exc = "none"
       THEN /\ Len(r.heap) <= cap
            /\ heap' = r.heap
            /\ last' = Result("arithmetic", "ok", <<>>, Len(heap) + 1)
            /\ UNCHANGED <<hashSeed, cursors, mesh>>
       ELSE /\ \E e \in (IF r.exc = "corrupt" THEN CorruptErrors ELSE {r.exc}) :
                   last' = Result("arithmetic", e, <<>>, 0)
            /\ UNCHANGED <<heap, hashSeed, cursors, mesh>>

\* (mutant) the operand is tested only after the composite node was made
ArithmeticLateCheck(cap, cls, self, other) ==
    IF isinstance(other)
    THEN Compose(cap, cls, self, other)
    ELSE /\ Len(heap) + 1 <= cap
         /\ heap' = Append(heap, NewObject(cls, OperatorName(cls)))
         /\ last' = Result("arithmetic", "NotImplementedError", <<>>, 0)
         /\ UNCHANGED <<hashSeed, cursors, mesh>>

\* body shared by __add__, __sub__, __mul__, __truediv__
Arithmetic(cap, cls, self, other) ==
    IF isinstance(other)
    THEN Compose(cap, cls, self, other)
    ELSE /\ last' = Result("arithmetic", "NotImplementedError", <<>>, 0)
         /\ UNCHANGED <<heap, hashSeed, cursors, mesh>>

add(self, other) == Arithmetic(MaxNodes, "Addition", self, other)

sub(self, other) == Arithmetic(MaxNodes, "Subtraction", self, other)

mul(self, other) == Arithmetic(MaxNodes, "Multiplication", self, other)

truediv(self, other) == Arithmetic(MaxNodes, "Division", self, other)

\* reading self.id
ReadId(self) ==
    /\ last' = Result("id", "ok", <<>>, id(heap, hashSeed, self))
    /\ UNCHANGED <<heap, hashSeed, cursors, mesh>>

\* (mutant) an evaluate that returns instead of raising
evaluateSilently(self, t, y) ==
    /\ heap[self].cls = "Symbol"
    /\ last' = Result("evaluate", "ok", <<>>, 0)
    /\ UNCHANGED <<heap, hashSeed, cursors, mesh>>

\* Symbol.evaluate(self, t, y)
evaluate(self, t, y) ==
    /\ heap[self].cls = "Symbol"
    /\ last' = Result("evaluate", "NotImplementedError",
                      <<heap[self].name, heap[self].cls>>, 0)
    /\ UNCHANGED <<heap, hashSeed, cursors, mesh>>

\* ---------------------------------------------------------------- cursors
\* anytree.PreOrderIter as pre_order() returns it: a generator.  pending is
\* what its suspended frames still have to visit, in order; fresh is the
\* node it yielded last, whose children it reads when it is resumed; out is
\* what it has yielded so far.
NewCursor(self) ==
    [root |-> self, pending |-> <<self>>, fresh |-> 0, out |-> <<>>, done |-> FALSE]

\* (mutant) a second iterator over a node picks up where the first one is
pre_orderResumed(self) ==
    /\ Len(cursors) < MaxCursors
    /\ cursors' = Append(cursors,
                         IF \E k \in 1 .. Len(cursors) : cursors[k].root = self
                         THEN [cursors[CHOOSE k \in 1 .. Len(cursors) : cursors[k].root = self]
                                 EXCEPT !.out = <<>>]
                         ELSE NewCursor(self))
    /\ UNCHANGED <<heap, last, hashSeed, mesh>>

\* Symbol.pre_order(self)
pre_order(self) ==
    /\ Len(cursors) < MaxCursors
    /\ cursors' = Append(cursors, NewCursor(self))
    /\ UNCHANGED <<heap, last, hashSeed, mesh>>

\* the frames of cursor c once the children of the node it yielded last
\* have been read
Resume(h, c) ==
    IF c.fresh = 0 THEN c.pending ELSE children(h, c.fresh) \o c.pending

\* one step of the generator: yield the next node or stop
Advance(h, c) ==
    LET todo == Resume(h, c)
    IN IF todo = <<>>
       THEN [c EXCEPT !.pending = <<>>, !.fresh = 0, !.done = TRUE]
       ELSE [c EXCEPT !.pending = Tail(todo), !.fresh = Head(todo),
                      !.out = Append(@, Head(todo))]

\* next(it) on the k-th iterator
next(k) ==
    /\ ~cursors[k].done
    /\ cursors' = [cursors EXCEPT ![k] = Advance(heap, cursors[k])]
    /\ UNCHANGED <<heap, last, hashSeed, mesh>>

\* ------------------------------------------- ScikitChebyshev2DSubMesh.__init__
SpatialVars == [name : {"x", "y", "z"}, coord_sys : {"cartesian", "polar"}]

NoEntry == 0
NptsValues == {1, 3}

\* lims: the keys of the dict in insertion order; npts[i]: the entry of npts
\* under the id of lims[i], NoEntry when npts has none
MeshInput(lims, npts) ==
    [lims |-> lims, npts |-> npts, result |-> "pending", what |-> "",
     edges |-> <<>>, base |-> FALSE]

IdleMesh == MeshInput(<<>>, <<>>)

\* the loop "for var in spatial_vars", from the i-th variable on; edges holds
\* <<name, number of edge points>> for the variables done
RECURSIVE ComputeEdges(_, _, _, _)
ComputeEdges(lims, npts, i, edges) ==
    IF i > Len(lims) THEN [result |-> "ok", what |-> "", edges |-> edges]
    ELSE IF lims[i].name \notin {"y", "z"}
    THEN [result |-> "DomainError", what |-> "spatial variable must be y or z",
          edges |-> edges]
    ELSE IF npts[i] = NoEntry
    THEN [result |-> "KeyError", what |-> "npts", edges |-> edges]
    ELSE ComputeEdges(lims, npts, i + 1,
             Append(SelectSeq(edges, LAMBDA e : e[1] # lims[i].name),
                    <<lims[i].name, IF npts[i] < 2 THEN 2 ELSE npts[i]>>))

\* (mutant) the first test is len(lims) < 2
Chebyshev_initAtLeastTwo(lims, npts) ==
    IF Len(lims) < 2
    THEN [result |-> "GeometryError",
          what |-> "lims should contain exactly two variables", edges |-> <<>>]
    ELSE IF lims[1].coord_sys # lims[2].coord_sys
    THEN [result |-> "DomainError",
          what |-> "spatial variables should have the same coordinate system",
          edges |-> <<>>]
    ELSE ComputeEdges(lims, npts, 1, <<>>)

Chebyshev_init(lims, npts) ==
    IF Len(lims) # 2
    THEN [result |-> "GeometryError",
          what |-> "lims should contain exactly two variables", edges |-> <<>>]
    ELSE IF lims[1].coord_sys # lims[2].coord_sys
    THEN [result |-> "DomainError",
          what |-> "spatial variables should have the same coordinate system",
          edges |-> <<>>]
    ELSE ComputeEdges(lims, npts, 1, <<>>)

\* ScikitChebyshev2DSubMesh(lims, npts, tabs); the base constructor runs last
Construct ==
    /\ mesh.result = "pending"
    /\ LET r == Chebyshev_init(mesh.lims, mesh.npts)
       IN mesh' = [mesh EXCEPT !.result = r.result, !.what = r.what,
                               !.edges = r.edges, !.base = (r.result = "ok")]
    /\ UNCHANGED <<heap, last, hashSeed, cursors>>

\* sequences of at most n distinct elements of S
RECURSIVE DistinctSeqs(_, _)
DistinctSeqs(S, n) ==
    IF n = 0 THEN {<<>>}
    ELSE LET shorter == DistinctSeqs(S, n - 1)
         IN shorter \cup UNION {{Append(q, x) : x \in S \ Range(q)} : q \in shorter}

Init ==
    /\ heap = <<>>
    /\ last = Result("start", "ok", <<>>, 0)
    /\ hashSeed \in Seeds
    /\ cursors = <<>>
    /\ mesh = IdleMesh

Next ==
    \/ \E nm \in Names : NewLeaf(nm)
    \/ \E self \in NodeIds, other \in NodeIds \cup NonSymbols : add(self, other)
    \/ \E self \in NodeIds, other \in NodeIds \cup NonSymbols : sub(self, other)
    \/ \E self \in NodeIds, other \in NodeIds \cup NonSymbols : mul(self, other)
    \/ \E self \in NodeIds, other \in NodeIds \cup NonSymbols : truediv(self, other)
    \/ \E self \in NodeIds : ReadId(self)
    \/ \E self \in NodeIds, t \in TimeArgs, y \in StateArgs : evaluate(self, t, y)

Spec == Init /\ [][Next]_vars

\* the operations the order-sensitivity property is about: two leaves, both
\* sums of them, and their ids
NextOrder ==
    \/ \E nm \in Names : NewLeafWithin(MaxOrderNodes, nm)
    \/ \E self \in NodeIds, other \in NodeIds \cup NonSymbols :
          Arithmetic(MaxOrderNodes, "Addition", self, other)
    \/ \E self \in NodeIds : ReadId(self)

SpecOrder == Init /\ [][NextOrder]_vars

\* building trees and walking them
NextIter ==
    \/ \E nm \in Names : NewLeaf(nm)
    \/ \E self \in NodeIds, other \in NodeIds \cup NonSymbols : mul(self, other)
    \/ \E self \in {n \in NodeIds : heap[n].parent = NoParent} : pre_order(self)
    \/ \E k \in 1 .. Len(cursors) : next(k)

SpecIter == Init /\ [][NextIter]_vars

\* constructing one submesh from arbitrary arguments
InitMesh ==
    /\ heap = <<>>
    /\ last = Result("start", "ok", <<>>, 0)
    /\ hashSeed \in Seeds
    /\ cursors = <<>>
    /\ \E lims \in DistinctSeqs(SpatialVars, MaxLims) :
          \E npts \in [1 .. Len(lims) -> {NoEntry} \cup NptsValues] :
             mesh = MeshInput(lims, npts)

NextMesh == Construct

SpecMesh == InitMesh /\ [][NextMesh]_vars

\* ===================================================== properties checked
IsRoot(h, n) == h[n].parent = NoParent

Owners(h, n) == {p \in 1 .. Len(h) : n \in Range(children(h, p))}

\* same class, same name and, recursively, the same children in the same order
RECURSIVE StructurallyEqual(_, _, _)
StructurallyEqual(h, m, n) ==
    /\ h[m].cls = h[n].cls
    /\ h[m].name = h[n].name
    /\ Len(children(h, m)) = Len(children(h, n))
    /\ \A i \in 1 .. Len(children(h, m)) :
          StructurallyEqual(h, children(h, m)[i], children(h, n)[i])

\* the pre-order law as a function of the tree: the node, then the
\* pre-order sequences of its children from left to right
RECURSIVE PreOrderOfAll(_, _)
PreOrderOfAll(h, nodes) ==
    IF nodes = <<>> THEN <<>>
    ELSE <<Head(nodes)>> \o PreOrderOfAll(h, children(h, Head(nodes)))
                         \o PreOrderOfAll(h, Tail(nodes))

PreOrderOf(h, n) == PreOrderOfAll(h, <<n>>)

IsPrefix(s, t) == Len(s) <= Len(t) /\ \A i \in 1 .. Len(s) : s[i] = t[i]

NoDuplicates(s) == \A i, j \in 1 .. Len(s) : s[i] = s[j] => i = j

\* ---- C1 (as claimed): whatever Symbols self and other are, attached or
\* not, each of the four arithmetic constructors succeeds; the new node has
\* exactly two children, with the ids of self and other in that order, which
\* are other instances than self and other; self.parent and other.parent
\* are what they were.
CopiedOnAttach(self, other) ==
    /\ last'.outcome = "ok"
    /\ LET c == last'.value
           cs == children(heap', c)
       IN /\ c \notin NodeIds
          /\ heap'[c].cls \in OperatorClasses
          /\ Len(cs) = 2
          /\ id(heap', hashSeed, cs[1]) = id(heap, hashSeed, self)
          /\ id(heap', hashSeed, cs[2]) = id(heap, hashSeed, other)
          /\ {cs[1], cs[2]} \cap {self, other} = {}
          /\ parent(heap', self) = parent(heap, self)
          /\ parent(heap', other) = parent(heap, other)

C1_CopyOnAttach ==
    [][\A cls \in OperatorClasses : \A self \in NodeIds, other \in NodeIds :
          Arithmetic(MaxNodes, cls, self, other) => CopiedOnAttach(self, other)]_vars

\* ---- C2 (as claimed): strict tree.  Every node is held by at most one
\* children sequence, the one of the node its parent back-reference names;
\* a node with a parent is among that parent's children; no two nodes
\* refer to the same children collection.
C2_StrictTree ==
    \A n \in NodeIds :
       /\ Cardinality(Owners(heap, n)) <= 1
       /\ \A p \in Owners(heap, n) : parent(heap, n) = p
       /\ ~IsRoot(heap, n) => n \in Range(children(heap, parent(heap, n)))
       /\ \A m \in NodeIds :
             m # n /\ heap[m].kids # NoList => heap[m].kids # heap[n].kids

\* ---- C3: id is determined by structure.  Two structurally equal trees,
\* whichever objects they are made of, have the same id, and the value a
\* read of id returned is the id the node has (a second read returns it
\* again).
C3_IdDeterministic ==
    /\ \A m \in NodeIds, n \in NodeIds :
          StructurallyEqual(heap, m, n) => id(heap, hashSeed, m) = id(heap, hashSeed, n)
    /\ last.op = "id" => \E n \in NodeIds : last.value = id(heap, hashSeed, n)

C3_Witness ==
    /\ last.op = "id"
    /\ \E m \in NodeIds, n \in NodeIds :
          /\ m # n /\ IsRoot(heap, m) /\ IsRoot(heap, n)
          /\ heap[m].cls \in OperatorClasses
          /\ StructurallyEqual(heap, m, n)
          /\ last.value = id(heap, hashSeed, m)

\* ---- C4 (as claimed): order sensitivity.  Two composites of the same
\* kind whose children are the same two leaves in opposite order, the
\* leaves having different ids, have different ids.
IsLeafNode(h, n) == h[n].cls = "Symbol" /\ children(h, n) = <<>>

Swapped(h, m, n) ==
    /\ h[m].cls \in OperatorClasses /\ h[m].cls = h[n].cls
    /\ Len(children(h, m)) = 2 /\ Len(children(h, n)) = 2
    /\ \A i \in 1 .. 2 : IsLeafNode(h, children(h, m)[i])
    /\ StructurallyEqual(h, children(h, m)[1], children(h, n)[2])
    /\ StructurallyEqual(h, children(h, m)[2], children(h, n)[1])

C4_OrderSensitive ==
    \A m \in NodeIds, n \in NodeIds :
       (/\ Swapped(heap, m, n)
        /\ id(heap, hashSeed, children(heap, m)[1])
             # id(heap, hashSeed, children(heap, m)[2]))
       => id(heap, hashSeed, m) # id(heap, hashSeed, n)

\* ---- C5: immutability.  Every step leaves every existing node in place
\* with its name, its children in order, its parent and its id.
C5_Immutable ==
    [][\/ heap' = heap /\ hashSeed' = hashSeed
       \/ \A n \in NodeIds :
          /\ n \in 1 .. Len(heap')
          /\ name(heap', n) = name(heap, n)
          /\ heap'[n].cls = heap[n].cls
          /\ children(heap', n) = children(heap, n)
          /\ parent(heap', n) = parent(heap, n)
          /\ id(heap', hashSeed', n) = id(heap, hashSeed, n)]_vars

C5_Witness ==
    \E n \in NodeIds, i \in 1 .. 2 :
       /\ IsRoot(heap, n)
       /\ Len(children(heap, n)) = 2
       /\ Len(children(heap, children(heap, n)[i])) = 2

\* ---- C6: operand rejection.  Each of the four constructors, given a right
\* operand that is no Symbol, raises NotImplementedError, creates no node
\* and leaves the left operand's name, children, parent and id alone.
C6_OperandRejected ==
    [][\A self \in NodeIds, other \in NonSymbols :
          (\/ add(self, other) \/ sub(self, other)
           \/ mul(self, other) \/ truediv(self, other))
          => /\ last'.op = "arithmetic"
             /\ last'.outcome = "NotImplementedError"
             /\ Len(heap') = Len(heap)
             /\ name(heap', self) = name(heap, self)
             /\ children(heap', self) = children(heap, self)
             /\ parent(heap', self) = parent(heap, self)
             /\ id(heap', hashSeed', self) = id(heap, hashSeed, self)]_vars

C6_Witness ==
    /\ last.op = "arithmetic"
    /\ last.outcome = "NotImplementedError"
    /\ \E n \in NodeIds : heap[n].cls \in OperatorClasses

\* ---- C8: evaluate on a node of the base kind raises NotImplementedError
\* whatever t and y are, the error names the node and its kind, and the
\* tree is as it was.
C8_EvaluateNotImplemented ==
    [][/\ last'.op = "evaluate"
          => /\ last'.outcome = "NotImplementedError"
             /\ heap' = heap
       /\ \A self \in NodeIds, t \in TimeArgs, y \in StateArgs :
             evaluate(self, t, y)
                => last'.msg = <<name(heap, self), heap[self].cls>>]_vars

C8_Witness ==
    /\ last.op = "evaluate"
    /\ last.outcome = "NotImplementedError"
    /\ \E n \in NodeIds : ~IsRoot(heap, n) /\ last.msg = <<name(heap, n), "Symbol">>

\* ---- C7 (as claimed): pre_order() on the root of a tree yields every node
\* of the tree exactly once, a node before its descendants and the children
\* of a node from left to right.
C7_PreOrderLaw ==
    \A k \in 1 .. Len(cursors) :
       (cursors[k].done /\ IsRoot(heap, cursors[k].root))
       => /\ cursors[k].out = PreOrderOf(heap, cursors[k].root)
          /\ NoDuplicates(cursors[k].out)

\* ---- C9: restartability.  Whatever the interleaving, each cursor yields
\* the pre-order sequence of its tree, front to back, and two cursors over
\* the same tree end with the same sequence.
C9_Restartable ==
    /\ \A k \in 1 .. Len(cursors) :
          /\ IsPrefix(cursors[k].out, PreOrderOf(heap, cursors[k].root))
          /\ cursors[k].done => cursors[k].out = PreOrderOf(heap, cursors[k].root)
    /\ \A j \in 1 .. Len(cursors), k \in 1 .. Len(cursors) :
          (cursors[j].root = cursors[k].root /\ cursors[j].done /\ cursors[k].done)
          => cursors[j].out = cursors[k].out

C9_Witness ==
    /\ Len(cursors) = 2
    /\ cursors[1].root = cursors[2].root
    /\ cursors[1].done /\ ~cursors[2].done
    /\ Len(cursors[1].out) >= 5
    /\ Len(cursors[2].out) >= 2

\* ---- C10 (as claimed): GeometryError unless lims has exactly two
\* variables; else DomainError when the coordinate systems differ; else
\* DomainError when a variable is named neither y nor z; the base
\* constructor is not invoked when construction fails.
BadNames(lims) == {i \in 1 .. Len(lims) : lims[i].name \notin {"y", "z"}}

FirstBad(lims) == CHOOSE i \in BadNames(lims) : \A j \in BadNames(lims) : i <= j

====
